---- MODULE Spec2Model ----
(***************************************************************************)
(* A model of easy_thumbnails/files.py: the Thumbnailer facade, its option *)
(* normalisation (get_options), its thumbnail naming (get_thumbnail_name)  *)
(* and its generation pipeline (generate_thumbnail, get_thumbnail,         *)
(* __getitem__).                                                           *)
(*                                                                         *)
(* Text is modelled as a sequence of atoms.  An atom is either one of the  *)
(* separator characters "/" "." "_" "x" "-", the template placeholder      *)
(* "%(opts)s", or a run of characters holding no separator ("test",        *)
(* "PNG").  The path functions of the source only look at separators and   *)
(* at letter case, so they act on atoms as they act on characters.         *)
(***************************************************************************)
EXTENDS Integers, Sequences, FiniteSets, TLC

VARIABLES
    thumbnailer,  \* the Thumbnailer instance (a record), or NoThumbnailer
    pc,           \* where the call in progress stands
    call,         \* the arguments and locals of the call in progress
    trace,        \* the pipeline stages entered by the call, in order
    log,          \* the collaborators invoked by the call, in order
    result,       \* what the last finished call returned or raised
    prev          \* the get_thumbnail_name call before the last one

vars == <<thumbnailer, pc, call, trace, log, result, prev>>

-----------------------------------------------------------------------------
(* Bounds of the model.                                                    *)

\* A size component is None, -10, 50 or an integer in -MaxDim..MaxDim.
MaxDim == 1

\* The number of source generators registered with the engine.
NumGenerators == 3

\* The number of processors in the processor chain.
NumProcessors == 1

-----------------------------------------------------------------------------
(* Python values.                                                          *)

\* An absent size component (Python None) is the empty tuple, a number n
\* is <<n>>: TLC cannot hold a string and an integer in one set.
NoneDim == <<>>

Num(n) == <<n>>

Dims == {NoneDim} \cup {Num(n) : n \in (-MaxDim..MaxDim) \cup {-10, 50}}

Sizes == Dims \X Dims

\* thumbnail_options=None.
NoneOptions == [kind |-> "None", items |-> <<>>]

\* No exception.
NoException == "none"

\* A Python value that is None (a return value, a file).
None == "None"

-----------------------------------------------------------------------------
(* Insertion-ordered dictionaries: sequences of <<key, value>> pairs with  *)
(* distinct keys.                                                          *)

Keys(d) == {d[i][1] : i \in DOMAIN d}

Has(d, k) == k \in Keys(d)

Get(d, k) == d[CHOOSE i \in DOMAIN d : d[i][1] = k][2]

\* d[k] = v: an existing key keeps its place, a new key goes last.
SetItem(d, k, v) ==
    IF Has(d, k)
    THEN [i \in DOMAIN d |-> IF d[i][1] = k THEN <<k, v>> ELSE d[i]]
    ELSE Append(d, <<k, v>>)

\* d.setdefault(k, v)
SetDefault(d, k, v) == IF Has(d, k) THEN d ELSE Append(d, <<k, v>>)

RECURSIVE Update(_, _)
\* d.update(e)
Update(d, e) ==
    IF e = <<>> THEN d
    ELSE Update(SetItem(d, e[1][1], e[1][2]), Tail(e))

\* The mapping a dictionary holds, whatever its insertion order.
AsMapping(d) == {d[i] : i \in DOMAIN d}

-----------------------------------------------------------------------------
(* Text.                                                                   *)

Sep == "/"

ExtSep == "."

OptsPlaceholder == "%(opts)s"

\* str.lower() on one atom.
LowerAtom(a) ==
    CASE a = "PNG" -> "png"
      [] a = "JPG" -> "jpg"
      [] OTHER -> a

\* str.lower()
Lower(s) == [i \in DOMAIN s |-> LowerAtom(s[i])]

\* s.rfind(c) + 1: the 1-based place of the last c, 0 when there is none.
RFind(s, c) ==
    IF \E i \in DOMAIN s : s[i] = c
    THEN CHOOSE i \in DOMAIN s : s[i] = c /\ \A j \in DOMAIN s : s[j] = c => j <= i
    ELSE 0

\* s.rstrip(c)
RStrip(s, c) ==
    SubSeq(s, 1, IF \E i \in DOMAIN s : s[i] # c
                 THEN CHOOSE i \in DOMAIN s :
                          s[i] # c /\ \A j \in DOMAIN s : j > i => s[j] = c
                 ELSE 0)

RECURSIVE ConcatFrom(_, _)
\* The concatenation of the texts of ss from the i-th on.
ConcatFrom(ss, i) == IF i > Len(ss) THEN <<>> ELSE ss[i] \o ConcatFrom(ss, i + 1)

\* The concatenation of a sequence of texts.
Concat(ss) == ConcatFrom(ss, 1)

RECURSIVE StrJoinFrom(_, _, _)
\* sep.join(ss[i-1:]), ss[i-1:] not being empty
StrJoinFrom(sep, ss, i) ==
    IF i >= Len(ss) THEN ss[i] ELSE ss[i] \o <<sep>> \o StrJoinFrom(sep, ss, i + 1)

\* sep.join(ss)
StrJoin(sep, ss) == IF ss = <<>> THEN <<>> ELSE StrJoinFrom(sep, ss, 1)

\* template % {'opts': opts_text}
PercentFormat(template, opts_text) ==
    Concat([i \in DOMAIN template |->
                IF template[i] = OptsPlaceholder THEN opts_text
                ELSE <<template[i]>>])

\* os.path.split(p): <<head, tail>>
os_path_split(p) ==
    LET i == RFind(p, Sep)
        head == SubSeq(p, 1, i)
        tail == SubSeq(p, i + 1, Len(p))
    IN  IF head # <<>> /\ \E j \in DOMAIN head : head[j] # Sep
        THEN <<RStrip(head, Sep), tail>>
        ELSE <<head, tail>>

\* os.path.splitext(p): <<root, ext>>; leading dots of the filename are no
\* extension.
os_path_splitext(p) ==
    LET sepIndex == RFind(p, Sep)
        dotIndex == RFind(p, ExtSep)
    IN  IF dotIndex > sepIndex
           /\ \E k \in (sepIndex + 1)..(dotIndex - 1) : p[k] # ExtSep
        THEN <<SubSeq(p, 1, dotIndex - 1), SubSeq(p, dotIndex, Len(p))>>
        ELSE <<p, <<>>>>

\* One step of os.path.join's loop.
JoinStep(path, b) ==
    IF b # <<>> /\ b[1] = Sep THEN b
    ELSE IF path = <<>> \/ path[Len(path)] = Sep THEN path \o b
    ELSE path \o <<Sep>> \o b

RECURSIVE JoinLoop(_, _)
\* The path after the loop of os.path.join has taken the n first parts.
JoinLoop(parts, n) ==
    IF n = 1 THEN parts[1] ELSE JoinStep(JoinLoop(parts, n - 1), parts[n])

\* os.path.join(a, *p)
os_path_join(parts) == JoinLoop(parts, Len(parts))

-----------------------------------------------------------------------------
(* Option sets (easy_thumbnails.options.ThumbnailOptions).                 *)

\* The process-wide default options every ThumbnailOptions is filled with.
DEFAULT_OPTIONS == << <<"quality", Num(85)>>, <<"subsampling", Num(2)>> >>

RECURSIVE SetDefaults(_, _)
SetDefaults(d, defaults) ==
    IF defaults = <<>> THEN d
    ELSE SetDefaults(SetDefault(d, defaults[1][1], defaults[1][2]), Tail(defaults))

\* ThumbnailOptions(*args, **kwargs): dict(*args, **kwargs), then every
\* default the caller did not give.
ThumbnailOptions(args, kwargs) ==
    LET given == IF args = <<>> THEN kwargs ELSE Update(args[1].items, kwargs)
    IN  [kind |-> "ThumbnailOptions", items |-> SetDefaults(given, DEFAULT_OPTIONS)]

\* The option keys in sorted order (upper case sorts before lower case).
KeyOrder == <<"ALIAS", "crop", "quality", "size", "subsampling">>

\* The options that are flags.
FlagKeys == {"crop"}

\* str(dim) of a size component.
DimText(d) == IF d = NoneDim THEN "None" ELSE ToString(d[1])

\* str(value) of the value of option k.
ValueText(k, v) == IF k = "ALIAS" THEN v ELSE DimText(v)

\* The token of one option: a flag by its name when set, anything else as
\* key-value.
OptionToken(k, v) ==
    IF k \in FlagKeys THEN (IF v THEN << <<k>> >> ELSE <<>>)
    ELSE << <<k, "-", ValueText(k, v)>> >>

\* The keys of d in the insertion order of d.
InsertionOrder(d) == [i \in DOMAIN d |-> d[i][1]]

\* The tokens of the options other than size, over the keys in `order`.
OptionTokens(d, order) ==
    Concat([i \in DOMAIN order |->
                IF Has(d, order[i]) /\ order[i] # "size"
                THEN OptionToken(order[i], Get(d, order[i]))
                ELSE <<>>])

\* A faulty variant: the tokens follow the insertion order of the options.
prepared_options_unsorted(opts) ==
    << <<DimText(Get(opts.items, "size")[1]), "x",
         DimText(Get(opts.items, "size")[2])>> >>
    \o OptionTokens(opts.items, InsertionOrder(opts.items))

\* ThumbnailOptions.prepared_options(): the size token first, then one token
\* per other option in sorted key order.
prepared_options(opts) ==
    << <<DimText(Get(opts.items, "size")[1]), "x",
         DimText(Get(opts.items, "size")[2])>> >>
    \o OptionTokens(opts.items, KeyOrder)

\* Thumbnailer.get_options(thumbnail_options, **kwargs): [exc, val].
get_options(self, thumbnail_options, kwargs) ==
    IF thumbnail_options.kind = "ThumbnailOptions"
    THEN [exc |-> NoException, val |-> thumbnail_options]
    ELSE LET args == IF thumbnail_options.kind # "None"
                     THEN <<thumbnail_options>> ELSE <<>>
             opts == ThumbnailOptions(args, kwargs)
         IN  \* 'quality' not in None raises TypeError
             IF thumbnail_options.kind = "None"
             THEN [exc |-> "TypeError", val |-> NoneOptions]
             ELSE IF ~Has(thumbnail_options.items, "quality")
             THEN [exc |-> NoException,
                   val |-> [opts EXCEPT !.items =
                                SetItem(opts.items, "quality", self.thumbnail_quality)]]
             ELSE [exc |-> NoException, val |-> opts]

-----------------------------------------------------------------------------
(* Naming (Thumbnailer.get_thumbnail_name and the naming strategies).      *)

\* easy_thumbnails.namers.default: source filename, option tokens, extension.
namer_default(source_filename, thumbnail_extension, thumbnail_options, prepared) ==
    StrJoin(ExtSep, <<source_filename, StrJoin("_", prepared), thumbnail_extension>>)

\* easy_thumbnails.namers.alias: source filename, alias tag, extension.
namer_alias(source_filename, thumbnail_extension, thumbnail_options, prepared) ==
    StrJoin(ExtSep, <<source_filename,
                      IF Has(thumbnail_options.items, "ALIAS")
                      THEN <<Get(thumbnail_options.items, "ALIAS")>> ELSE <<>>,
                      thumbnail_extension>>)

\* import_string(self.thumbnail_namer)(...)
namer_func(namer, source_filename, thumbnail_extension, thumbnail_options, prepared) ==
    IF namer = "easy_thumbnails.namers.alias"
    THEN namer_alias(source_filename, thumbnail_extension, thumbnail_options, prepared)
    ELSE namer_default(source_filename, thumbnail_extension, thumbnail_options, prepared)

\* preserve_extensions is True
IsTrue(preserve) == preserve.kind = "bool" /\ preserve.value

\* A faulty variant: any collection of extensions is consulted, and transparency
\* wins over preservation.
thumbnail_extension_transparency_first(self, transparent) ==
    LET source_filename == os_path_split(self.name)[2]
        ext == os_path_splitext(source_filename)[2]
        source_extension == Lower(SubSeq(ext, 2, Len(ext)))
        preserve_extensions == self.thumbnail_preserve_extensions
        extension ==
            IF transparent THEN self.thumbnail_transparency_extension
            ELSE IF IsTrue(preserve_extensions)
                    \/ source_extension \in preserve_extensions.items
            THEN source_extension
            ELSE self.thumbnail_extension
    IN  IF extension # <<>> THEN extension ELSE <<"jpg">>

\* Lines 209-219 of get_thumbnail_name: the extension of the thumbnail.
thumbnail_extension(self, transparent) ==
    LET source_filename == os_path_split(self.name)[2]
        ext == os_path_splitext(source_filename)[2]
        source_extension == Lower(SubSeq(ext, 2, Len(ext)))
        preserve_extensions == self.thumbnail_preserve_extensions
        extension ==
            IF IsTrue(preserve_extensions)
               \/ (preserve_extensions.kind \in {"list", "tuple"}
                   /\ source_extension \in preserve_extensions.items)
            THEN source_extension
            ELSE IF transparent THEN self.thumbnail_transparency_extension
            ELSE self.thumbnail_extension
    IN  IF extension # <<>> THEN extension ELSE <<"jpg">>

\* A faulty variant: the sub-directory goes before the source directory and the
\* prefix is dropped.
compose_path_swapped(self, opts_text, path, filename) ==
    os_path_join(<<PercentFormat(self.thumbnail_basedir, opts_text),
                   PercentFormat(self.thumbnail_subdir, opts_text),
                   path,
                   filename>>)

\* Lines 224-226 and 239-241 of get_thumbnail_name: the templates filled in,
\* the filename prefixed, the four parts joined.
compose_path(self, opts_text, path, filename) ==
    os_path_join(<<PercentFormat(self.thumbnail_basedir, opts_text),
                   path,
                   PercentFormat(self.thumbnail_subdir, opts_text),
                   self.thumbnail_prefix \o filename>>)

\* Thumbnailer.get_thumbnail_name(thumbnail_options, transparent): the path
\* returned, with the arguments the naming strategy was called with.
get_thumbnail_name(self, thumbnail_options, transparent) ==
    LET got == get_options(self, thumbnail_options, <<>>)
        opts == got.val
        split == os_path_split(self.name)
        path == split[1]
        source_filename == split[2]
        extension == thumbnail_extension(self, transparent)
        prepared_opts == prepared_options(opts)
        opts_text == StrJoin("_", prepared_opts)
        filename == namer_func(self.thumbnail_namer, source_filename, extension,
                               opts, prepared_opts)
    IN  IF got.exc # NoException
        THEN [exc |-> got.exc, ret |-> <<>>, source_filename |-> <<>>,
              thumbnail_extension |-> <<>>, thumbnail_options |-> NoneOptions,
              prepared_options |-> <<>>]
        ELSE [exc |-> NoException,
              ret |-> compose_path(self, opts_text, path, filename),
              source_filename |-> source_filename,
              thumbnail_extension |-> extension,
              thumbnail_options |-> opts,
              prepared_options |-> prepared_opts]

-----------------------------------------------------------------------------
(* The inputs of the naming specifications.                                *)

\* Source names: test.jpg, photo.PNG, img/photo.png, /abs/photo.png,
\* README, .hidden
SourceNames ==
    { <<"test", ".", "jpg">>,
      <<"photo", ".", "PNG">>,
      <<"img", "/", "photo", ".", "png">>,
      <<"/", "abs", "/", "photo", ".", "png">>,
      <<"README">>,
      <<".", "hidden">> }

Bool(b) == [kind |-> "bool", value |-> b, items |-> {}]

Collection(kind, items) == [kind |-> kind, value |-> FALSE, items |-> items]

\* preserve_extensions: True, False, or a list, tuple or set of extensions.
PreserveSettings ==
    {Bool(TRUE), Bool(FALSE)}
    \cup {Collection(k, {<<"png">>}) : k \in {"list", "tuple", "set"}}
    \cup {Collection("list", {}), Collection("tuple", {<<"jpg">>, <<"PNG">>})}

\* The settings a Thumbnailer takes when its attributes are not set.
DefaultSettings ==
    [thumbnail_basedir |-> <<>>,
     thumbnail_subdir |-> <<>>,
     thumbnail_prefix |-> <<>>,
     thumbnail_quality |-> Num(85),
     thumbnail_extension |-> <<"jpg">>,
     thumbnail_preserve_extensions |-> Bool(FALSE),
     thumbnail_transparency_extension |-> <<"png">>,
     thumbnail_namer |-> "easy_thumbnails.namers.default"]

\* Thumbnailer.__init__: the arguments kept, every thumbnail_* attribute
\* taken from `settings`.
Thumbnailer(file, name, remote_source, generate, settings) ==
    [file |-> file,
     name |-> name,
     source_storage |-> None,
     thumbnail_storage |-> None,
     remote_source |-> remote_source,
     alias_target |-> None,
     generate |-> generate,
     thumbnail_basedir |-> settings.thumbnail_basedir,
     thumbnail_subdir |-> settings.thumbnail_subdir,
     thumbnail_prefix |-> settings.thumbnail_prefix,
     thumbnail_quality |-> settings.thumbnail_quality,
     thumbnail_extension |-> settings.thumbnail_extension,
     thumbnail_preserve_extensions |-> settings.thumbnail_preserve_extensions,
     thumbnail_transparency_extension |-> settings.thumbnail_transparency_extension,
     thumbnail_namer |-> settings.thumbnail_namer]

\* The settings the extension policy reads, everything else at its default.
ExtensionSettings ==
    {[DefaultSettings EXCEPT !.thumbnail_preserve_extensions = p,
                             !.thumbnail_extension = e,
                             !.thumbnail_transparency_extension = t] :
        p \in PreserveSettings,
        e \in {<<>>, <<"jpg">>},
        t \in {<<>>, <<"png">>}}

\* The settings the path composition reads, everything else at its default.
PathSettings ==
    {[DefaultSettings EXCEPT !.thumbnail_basedir = b,
                             !.thumbnail_subdir = s,
                             !.thumbnail_prefix = x,
                             !.thumbnail_namer = n] :
        b \in {<<>>, <<"thumbs">>, <<"cache", "/", OptsPlaceholder>>},
        s \in {<<>>, <<"sub">>, <<"/", "srv">>},
        x \in {<<>>, <<"thumb", "_">>},
        n \in {"easy_thumbnails.namers.default", "easy_thumbnails.namers.alias"}}

Dict(items) == [kind |-> "dict", items |-> items]

\* The options the naming calls choose from.
OptionPool == { <<"size", <<Num(50), Num(50)>> >>, <<"crop", TRUE>>,
                <<"quality", Num(90)>> }

\* Every insertion order of every subset of `pool`.
AllOrderings(pool) ==
    UNION { { d \in [1..n -> pool] : \A i, j \in 1..n : i # j => d[i] # d[j] } :
            n \in 0..Cardinality(pool) }

\* Every insertion order of every subset of `pool` that holds a size.
Orderings(pool) == {d \in AllOrderings(pool) : Has(d, "size")}

NameOptionSets == {Dict(d) : d \in Orderings(OptionPool)}

NoCall == [op |-> "none"]

NoResult == [exc |-> NoException, ret |-> None]

NoPrev == [op |-> "none"]

-----------------------------------------------------------------------------
(* The naming specifications: get_thumbnail_name called on a Thumbnailer   *)
(* built from a name, again and again.                                     *)

InitNaming(settings) ==
    /\ thumbnailer \in {Thumbnailer(None, n, FALSE, TRUE, s) :
                           n \in SourceNames, s \in settings}
    /\ pc = "idle"
    /\ call = NoCall
    /\ trace = <<>>
    /\ log = <<>>
    /\ result = NoResult
    /\ prev = NoPrev

InitExtension == InitNaming(ExtensionSettings)

InitPath == InitNaming(PathSettings)

\* thumbnailer.get_thumbnail_name(thumbnail_options, transparent=...)
CallGetThumbnailName ==
    \E thumbnail_options \in NameOptionSets, transparent \in BOOLEAN :
        /\ pc = "idle"
        /\ call' = [op |-> "get_thumbnail_name",
                    thumbnail_options |-> thumbnail_options,
                    transparent |-> transparent]
        /\ result' = get_thumbnail_name(thumbnailer, thumbnail_options, transparent)
        /\ prev' = IF call.op = "get_thumbnail_name"
                   THEN [op |-> "get_thumbnail_name",
                         thumbnail_options |-> call.thumbnail_options,
                         transparent |-> call.transparent,
                         ret |-> result.ret]
                   ELSE NoPrev
        /\ UNCHANGED <<thumbnailer, pc, trace, log>>

NextNaming == CallGetThumbnailName

SpecExtension == InitExtension /\ [][NextNaming]_vars

SpecPath == InitPath /\ [][NextNaming]_vars

-----------------------------------------------------------------------------
(* What the naming claims speak of, stated without the path functions.     *)

\* The text after the last "/" of a source name.
FilenameOf(name) == SubSeq(name, RFind(name, Sep) + 1, Len(name))

\* The lower-cased text after the last "." of the filename, empty when the
\* filename has no "." after its first character that is not a ".".
LowerExtensionOf(name) ==
    LET f == FilenameOf(name)
        dot == RFind(f, ExtSep)
    IN  IF dot = 0 \/ \A k \in 1..(dot - 1) : f[k] = ExtSep
        THEN <<>>
        ELSE Lower(SubSeq(f, dot + 1, Len(f)))

\* The extension policy (a) to (d), with `collections` the kinds of
\* collection that preserve_extensions is looked up in.
PolicyExtension(self, transparent, collections) ==
    LET source == LowerExtensionOf(self.name)
        preserve == self.thumbnail_preserve_extensions
        chosen == IF IsTrue(preserve)
                     \/ (preserve.kind \in collections /\ source \in preserve.items)
                  THEN source
                  ELSE IF transparent THEN self.thumbnail_transparency_extension
                  ELSE self.thumbnail_extension
    IN  IF chosen = <<>> THEN <<"jpg">> ELSE chosen

NamingDone == call.op = "get_thumbnail_name" /\ result.exc = NoException

\* C2 as stated: preserve_extensions is consulted when it is a list or a set
\* (a tuple, being a sequence like a list, is counted in).
C2_Original ==
    NamingDone =>
        result.thumbnail_extension =
            PolicyExtension(thumbnailer, call.transparent, {"list", "tuple", "set"})

\* C2, amended: the output extension is (a) the lower-cased source extension
\* if preserve_extensions is True or is a list or tuple holding it (a set is
\* never consulted), (b) else the transparency extension if transparent,
\* (c) else the default extension, (d) 'jpg' if that is empty; so with
\* preserve_extensions=True it is the lower-cased source extension, or 'jpg'
\* for a source without extension, whatever the other settings.
C2_ExtensionPolicy ==
    NamingDone =>
        /\ result.thumbnail_extension =
               PolicyExtension(thumbnailer, call.transparent, {"list", "tuple"})
        /\ IsTrue(thumbnailer.thumbnail_preserve_extensions) =>
               result.thumbnail_extension =
                   IF LowerExtensionOf(thumbnailer.name) = <<>> THEN <<"jpg">>
                   ELSE LowerExtensionOf(thumbnailer.name)

\* A transparent thumbnail of photo.PNG keeps 'png' by preservation although
\* the transparency extension is empty and the default is 'jpg'.
C2_Witness ==
    /\ NamingDone
    /\ call.transparent
    /\ thumbnailer.name = <<"photo", ".", "PNG">>
    /\ thumbnailer.thumbnail_preserve_extensions = Collection("tuple", {<<"png">>})
    /\ thumbnailer.thumbnail_transparency_extension = <<>>
    /\ thumbnailer.thumbnail_extension = <<"jpg">>
    /\ result.thumbnail_extension = <<"png">>

\* Whether a text starts with "/".
IsAbsolute(t) == t # <<>> /\ t[1] = Sep

RECURSIVE SlashCompose(_)
\* The parts one after the other, a "/" after each part that has a
\* successor and does not end with one already.
SlashCompose(parts) ==
    IF parts = <<>> THEN <<>>
    ELSE IF Len(parts) = 1 THEN parts[1]
    ELSE parts[1]
         \o (IF parts[1] # <<>> /\ parts[1][Len(parts[1])] = Sep THEN <<>> ELSE <<Sep>>)
         \o SlashCompose(Tail(parts))

\* The parts that are not empty.
NonEmpty(parts) == SelectSeq(parts, LAMBDA t : t # <<>>)

\* The four components of the thumbnail path of the last naming call.
PathParts ==
    LET opts_text == StrJoin("_", result.prepared_options)
        source_directory == RStrip(SubSeq(thumbnailer.name, 1, RFind(thumbnailer.name, Sep)), Sep)
    IN  << PercentFormat(thumbnailer.thumbnail_basedir, opts_text),
           IF source_directory = <<>> /\ IsAbsolute(thumbnailer.name)
           THEN <<Sep>> ELSE source_directory,
           PercentFormat(thumbnailer.thumbnail_subdir, opts_text),
           thumbnailer.thumbnail_prefix
           \o namer_func(thumbnailer.thumbnail_namer, result.source_filename,
                         result.thumbnail_extension, result.thumbnail_options,
                         result.prepared_options) >>

\* The naming strategy was called with the source filename, the chosen
\* extension, the normalised option set and its prepared tokens.
NamerArguments ==
    /\ result.source_filename = FilenameOf(thumbnailer.name)
    /\ result.thumbnail_extension =
           thumbnail_extension(thumbnailer, call.transparent)
    /\ result.thumbnail_options =
           get_options(thumbnailer, call.thumbnail_options, <<>>).val
    /\ result.prepared_options = prepared_options(result.thumbnail_options)

\* C3 as stated: the path holds all four components, in order.
C3_Original ==
    NamingDone => /\ NamerArguments
                  /\ result.ret = SlashCompose(NonEmpty(PathParts))

\* The place of the last absolute component after the first, 1 when there
\* is none.
LastAbsolute(parts) ==
    IF \E i \in 2..Len(parts) : IsAbsolute(parts[i])
    THEN CHOOSE i \in 2..Len(parts) :
             /\ IsAbsolute(parts[i])
             /\ \A j \in 2..Len(parts) : IsAbsolute(parts[j]) => j <= i
    ELSE 1

\* C3, amended: the path is basedir / source_directory / subdir /
\* (prefix + namer_filename) in that order, basedir and subdir with the
\* option text filled in, empty components left out, when neither the source
\* directory nor subdir nor the prefixed filename is absolute; a component
\* that starts with "/" discards every component before it (an absolute
\* source name drops basedir).
C3_PathComposition ==
    NamingDone =>
        /\ NamerArguments
        /\ result.ret =
               SlashCompose(NonEmpty(SubSeq(PathParts, LastAbsolute(PathParts), 4)))

\* img/photo.png under basedir cache/%(opts)s, subdir sub, prefix thumb_.
C3_Witness ==
    /\ NamingDone
    /\ thumbnailer.name = <<"img", "/", "photo", ".", "png">>
    /\ thumbnailer.thumbnail_namer = "easy_thumbnails.namers.default"
    /\ call.thumbnail_options = Dict(<< <<"size", <<Num(50), Num(50)>> >> >>)
    /\ result.ret = <<"cache", "/", "50", "x", "50", "_", "quality", "-", "85",
                      "_", "subsampling", "-", "2", "/",
                      "img", "/", "sub", "/",
                      "thumb", "_", "photo", ".", "png", ".",
                      "50", "x", "50", "_", "quality", "-", "85",
                      "_", "subsampling", "-", "2", ".", "jpg">>

\* C4: two get_thumbnail_name calls on one Thumbnailer whose option sets
\* hold the same key/value pairs, in whatever insertion order, with the
\* same transparent flag, return the same path, and the call enters no
\* pipeline stage and invokes no generator, processor or encoder.
C4_NamingDeterminism ==
    /\ (NamingDone /\ prev.op = "get_thumbnail_name"
        /\ AsMapping(prev.thumbnail_options.items) = AsMapping(call.thumbnail_options.items)
        /\ prev.transparent = call.transparent)
       => prev.ret = result.ret
    /\ call.op = "get_thumbnail_name" => trace = <<>> /\ log = <<>>

\* Two calls with the same three options in different insertion orders.
C4_Witness ==
    /\ NamingDone /\ prev.op = "get_thumbnail_name"
    /\ Len(call.thumbnail_options.items) = 3
    /\ AsMapping(prev.thumbnail_options.items) = AsMapping(call.thumbnail_options.items)
    /\ prev.thumbnail_options.items[1] # call.thumbnail_options.items[1]
    /\ prev.transparent = call.transparent
    /\ prev.ret = result.ret

-----------------------------------------------------------------------------
(* The collaborators of the pipeline: the alias registry, the engine.      *)

NoThumbnailer == [file |-> None, name |-> <<>>]

\* The aliases registered project-wide: small is 50x50 cropped, zero has
\* the size 0x0, empty holds no option at all.
AliasNames == {"small", "zero", "empty", "missing"}

\* aliases.get(alias, target=target): the option set of the alias, None
\* when there is none.
aliases_get(alias, target) ==
    CASE alias = "small" ->
             Dict(<< <<"size", <<Num(50), Num(50)>> >>, <<"crop", TRUE>> >>)
      [] alias = "zero" -> Dict(<< <<"size", <<Num(0), Num(0)>> >> >>)
      [] alias = "empty" -> Dict(<<>>)
      [] OTHER -> NoneOptions

\* What one source generator does with the source: it returns an image, it
\* returns None (not applicable), or it raises.
GeneratorOutcomes == {"image", "none", "raise"}

NoImage == [generator |-> 0, processed |-> 0, transparent |-> FALSE]

RECURSIVE GeneratorLoop(_, _, _)
\* The generators from the i-th on, tried in order.
GeneratorLoop(i, outcomes, fail_silently) ==
    IF i > Len(outcomes)
    THEN [exc |-> NoException, image |-> NoImage, tried |-> Len(outcomes)]
    ELSE IF outcomes[i] = "image"
    THEN [exc |-> NoException,
          image |-> [generator |-> i, processed |-> 0, transparent |-> FALSE],
          tried |-> i]
    ELSE IF outcomes[i] = "raise" /\ ~fail_silently
    THEN [exc |-> "GeneratorError", image |-> NoImage, tried |-> i]
    ELSE GeneratorLoop(i + 1, outcomes, fail_silently)

\* engine.generate_source_image(source_file, options, generators,
\* fail_silently): the source is acquired, then the generators are tried.
generate_source_image(source_file, outcomes, fail_silently) ==
    IF source_file = None
    THEN [exc |-> "MissingSourceError", image |-> NoImage, tried |-> 0]
    ELSE GeneratorLoop(1, outcomes, fail_silently)

\* engine.process_image(image, options, processors): every processor of the
\* chain applied in order; `transparent` is whether the outcome has alpha.
process_image(image, transparent) ==
    [image EXCEPT !.processed = NumProcessors, !.transparent = transparent]

\* utils.is_transparent(image)
is_transparent(image) == image.transparent

-----------------------------------------------------------------------------
(* The size check of generate_thumbnail.                                   *)

\* float(dim): [ok, val]; None raises TypeError.
ToFloat(dim) ==
    IF dim = NoneDim THEN [ok |-> FALSE, val |-> 0] ELSE [ok |-> TRUE, val |-> dim[1]]

Min(a, b) == IF a < b THEN a ELSE b

Max(a, b) == IF a > b THEN a ELSE b

RECURSIVE SizeLoop(_, _)
\* The loop of lines 170-175 over the components left: <<min_dim, max_dim>>.
SizeLoop(acc, dims) ==
    IF dims = <<>> THEN acc
    ELSE LET f == ToFloat(dims[1])
         IN  IF ~f.ok THEN SizeLoop(acc, Tail(dims))
             ELSE SizeLoop(<<Min(acc[1], f.val), Max(acc[2], f.val)>>, Tail(dims))

\* A faulty variant: only a size with both components at most 0 is refused.
size_is_invalid_max_only(orig_size) ==
    SizeLoop(<<0, 0>>, orig_size)[2] = 0

\* Lines 169-176: whether the size check refuses orig_size.
size_is_invalid(orig_size) ==
    LET dims == SizeLoop(<<0, 0>>, orig_size)
        min_dim == dims[1]
        max_dim == dims[2]
    IN  max_dim = 0 \/ min_dim < 0

\* exceptions.EasyThumbnailsError("The source image has an invalid size
\* ({0}x{1})"): the error of the size check.
InvalidSizeError == "EasyThumbnailsError: The source image has an invalid size"

\* exceptions.InvalidImageFormatError("The source file does not appear to be
\* an image: '{name}'")
InvalidImageFormatError == "InvalidImageFormatError"

-----------------------------------------------------------------------------
(* The pipeline specification: Thumbnailers are built, and thumbnails are  *)
(* asked of them by alias (__getitem__), by options (get_thumbnail) or     *)
(* straight from generate_thumbnail.  A call runs stage by stage.          *)

PipelineNames == { <<"test", ".", "jpg">> }

\* The option sets the pipeline is called with: a size, or None.
PipelineOptionSets ==
    {Dict(<< <<"size", size>> >>) : size \in Sizes} \cup {NoneOptions}

NoneValue == [kind |-> "None"]

Returned(value) == [exc |-> NoException, arg |-> <<>>, ret |-> value]

Raised(exc, arg) == [exc |-> exc, arg |-> arg, ret |-> NoneValue]

Stages == <<"SizeCheck", "GenerateSource", "Process", "Name", "Encode">>

PipelineOps == {"__getitem__", "get_thumbnail", "generate_thumbnail"}

\* No call is running.
Idle == pc = "idle"

HasThumbnailer == thumbnailer # NoThumbnailer

Init ==
    /\ thumbnailer = NoThumbnailer
    /\ pc = "idle"
    /\ call = NoCall
    /\ trace = <<>>
    /\ log = <<>>
    /\ result = Returned(NoneValue)
    /\ prev = NoPrev

\* get_thumbnailer(obj, relative_name): a Thumbnailer is returned as it is,
\* a string is the relative name of a source without file, anything else
\* is the file and needs a relative name.
get_thumbnailer ==
    \E kind \in {"Thumbnailer", "str", "file", "None"},
       text \in PipelineNames,
       relative_name \in PipelineNames \cup {<<>>} :
        LET name == IF kind = "str" THEN text ELSE relative_name
            file == IF kind = "file" THEN "file" ELSE None
        IN  /\ Idle
            /\ kind = "Thumbnailer" => HasThumbnailer
            /\ call' = [op |-> "get_thumbnailer"]
            /\ pc' = "idle"
            /\ trace' = <<>>
            /\ log' = <<>>
            /\ IF kind = "Thumbnailer"
               THEN /\ result' = Returned([kind |-> "Thumbnailer"])
                    /\ UNCHANGED thumbnailer
               ELSE IF name = <<>>
               THEN /\ result' = Raised("ValueError", <<>>)
                    /\ UNCHANGED thumbnailer
               ELSE /\ result' = Returned([kind |-> "Thumbnailer"])
                    /\ thumbnailer' = Thumbnailer(file, name, file # None, TRUE,
                                                  DefaultSettings)
            /\ UNCHANGED prev

\* Thumbnailer(file=file, name=name, generate=generate)
Thumbnailer__init__ ==
    \E file \in {None, "file"}, name \in PipelineNames, generate \in BOOLEAN :
        /\ Idle
        /\ call' = [op |-> "Thumbnailer"]
        /\ pc' = "idle"
        /\ trace' = <<>>
        /\ log' = <<>>
        /\ result' = Returned([kind |-> "Thumbnailer"])
        /\ thumbnailer' = Thumbnailer(file, name, FALSE, generate, DefaultSettings)
        /\ UNCHANGED prev

\* The entry of generate_thumbnail (line 166), reached from `op`: the
\* options are normalised, the stages lie ahead.
EnterGenerateThumbnail(op, alias, thumbnail_options, generate, silent) ==
    LET got == get_options(thumbnailer, thumbnail_options, <<>>)
    IN  /\ call' = [op |-> op,
                    alias |-> alias,
                    generate |-> generate,
                    silent_template_exception |-> silent,
                    thumbnail_options |-> got.val,
                    outcomes |-> <<>>,
                    image |-> NoImage,
                    thumbnail_image |-> NoImage,
                    filename |-> <<>>]
        /\ trace' = <<>>
        /\ log' = <<>>
        /\ IF got.exc # NoException
           THEN pc' = "Failed" /\ result' = Raised(got.exc, <<>>)
           ELSE pc' = "SizeCheck" /\ result' = Returned(NoneValue)
        /\ UNCHANGED <<thumbnailer, prev>>

\* The body of get_thumbnail (lines 261-266): whatever `generate` (and
\* `save`) are, the options are normalised and generate_thumbnail runs.
EnterGetThumbnail(alias, thumbnail_options, generate, silent) ==
    LET got == get_options(thumbnailer, thumbnail_options, <<>>)
    IN  EnterGenerateThumbnail("get_thumbnail", alias,
                               IF got.exc = NoException THEN got.val
                               ELSE thumbnail_options,
                               generate, silent)

\* thumbnailer.get_thumbnail(thumbnail_options, generate=generate,
\* silent_template_exception=silent)
get_thumbnail ==
    \E thumbnail_options \in PipelineOptionSets,
       generate \in {"None", "True", "False"},
       silent \in BOOLEAN :
        /\ Idle
        /\ HasThumbnailer
        /\ EnterGetThumbnail("", thumbnail_options, generate, silent)

\* thumbnailer.generate_thumbnail(thumbnail_options,
\* silent_template_exception=silent)
generate_thumbnail ==
    \E thumbnail_options \in PipelineOptionSets, silent \in BOOLEAN :
        /\ Idle
        /\ HasThumbnailer
        /\ EnterGenerateThumbnail("generate_thumbnail", "", thumbnail_options,
                                  "None", silent)

\* A faulty variant: the alias is resolved but the option set is not tagged.
getitem_untagged(alias) ==
    LET options == aliases_get(alias, thumbnailer.alias_target)
    IN  IF options.kind = "None" \/ options.items = <<>>
        THEN /\ call' = [op |-> "__getitem__", alias |-> alias]
             /\ pc' = "Failed"
             /\ trace' = <<>>
             /\ log' = <<>>
             /\ result' = Raised("KeyError", <<alias>>)
             /\ UNCHANGED <<thumbnailer, prev>>
        ELSE EnterGenerateThumbnail("__getitem__", alias, options, "None", TRUE)

\* The body of __getitem__ (lines 138-142).
getitem(alias) ==
    LET options == aliases_get(alias, thumbnailer.alias_target)
    IN  IF options.kind = "None" \/ options.items = <<>>
        THEN /\ call' = [op |-> "__getitem__", alias |-> alias]
             /\ pc' = "Failed"
             /\ trace' = <<>>
             /\ log' = <<>>
             /\ result' = Raised("KeyError", <<alias>>)
             /\ UNCHANGED <<thumbnailer, prev>>
        ELSE EnterGenerateThumbnail(
                 "__getitem__", alias,
                 [options EXCEPT !.items = SetItem(options.items, "ALIAS", alias)],
                 "None", TRUE)

\* thumbnailer[alias]
__getitem__ ==
    \E alias \in AliasNames :
        /\ Idle
        /\ HasThumbnailer
        /\ getitem(alias)

-----------------------------------------------------------------------------
(* The stages of generate_thumbnail.                                       *)

Enter(stage) == trace' = Append(trace, stage)

Fail(exc, arg) == pc' = "Failed" /\ result' = Raised(exc, arg)

Invoked(what, n) == [i \in 1..n |-> <<what, i>>]

\* A faulty variant: a missing source is refused before the size is looked at.
SizeCheck_after_acquire ==
    /\ pc = "SizeCheck"
    /\ Enter("SizeCheck")
    /\ LET orig_size == Get(call.thumbnail_options.items, "size")
       IN  IF thumbnailer.file = None
           THEN Fail("MissingSourceError", <<>>)
           ELSE IF size_is_invalid(orig_size)
           THEN Fail(InvalidSizeError, orig_size)
           ELSE pc' = "GenerateSource" /\ UNCHANGED result
    /\ UNCHANGED <<thumbnailer, call, log, prev>>

\* Lines 167-178: the size sanity check.
SizeCheck ==
    /\ pc = "SizeCheck"
    /\ Enter("SizeCheck")
    /\ LET orig_size == Get(call.thumbnail_options.items, "size")
       IN  IF size_is_invalid(orig_size)
           THEN Fail(InvalidSizeError, orig_size)
           ELSE pc' = "GenerateSource" /\ UNCHANGED result
    /\ UNCHANGED <<thumbnailer, call, log, prev>>

\* Lines 180-186 with `fail_silently` given: the engine makes the source
\* image; no image is an InvalidImageFormatError naming the source.
GenerateSourceWith(fail_silently) ==
    /\ pc = "GenerateSource"
    /\ \E outcomes \in [1..NumGenerators -> GeneratorOutcomes] :
        LET made == generate_source_image(thumbnailer.file, outcomes, fail_silently)
        IN  /\ Enter("GenerateSource")
            /\ log' = log \o Invoked("generator", made.tried)
            /\ call' = [call EXCEPT !.outcomes = outcomes, !.image = made.image]
            /\ IF made.exc # NoException
               THEN Fail(made.exc, <<>>)
               ELSE IF made.image = NoImage
               THEN Fail(InvalidImageFormatError, thumbnailer.name)
               ELSE pc' = "Process" /\ UNCHANGED result
            /\ UNCHANGED <<thumbnailer, prev>>

\* A faulty variant: a source the engine made no image of goes on to the
\* processors.
GenerateSource_unchecked ==
    /\ pc = "GenerateSource"
    /\ \E outcomes \in [1..NumGenerators -> GeneratorOutcomes] :
        LET made == generate_source_image(thumbnailer.file, outcomes,
                                          call.silent_template_exception)
        IN  /\ Enter("GenerateSource")
            /\ log' = log \o Invoked("generator", made.tried)
            /\ call' = [call EXCEPT !.outcomes = outcomes, !.image = made.image]
            /\ IF made.exc # NoException
               THEN Fail(made.exc, <<>>)
               ELSE pc' = "Process" /\ UNCHANGED result
            /\ UNCHANGED <<thumbnailer, prev>>

\* A faulty variant: the engine is always told to fail silently.
GenerateSource_always_silent == GenerateSourceWith(TRUE)

\* Lines 180-186: fail_silently=silent_template_exception.
GenerateSource == GenerateSourceWith(call.silent_template_exception)

\* Lines 188-189: the processors.
Process ==
    /\ pc = "Process"
    /\ \E transparent \in BOOLEAN :
        /\ Enter("Process")
        /\ log' = log \o Invoked("processor", NumProcessors)
        /\ call' = [call EXCEPT !.thumbnail_image = process_image(call.image, transparent)]
        /\ pc' = "Name"
        /\ UNCHANGED <<thumbnailer, result, prev>>

\* Lines 190-194: the name of the thumbnail.
Name ==
    /\ pc = "Name"
    /\ Enter("Name")
    /\ log' = log \o Invoked("namer", 1)
    /\ call' = [call EXCEPT !.filename =
                    get_thumbnail_name(thumbnailer, call.thumbnail_options,
                                       is_transparent(call.thumbnail_image)).ret]
    /\ pc' = "Encode"
    /\ UNCHANGED <<thumbnailer, result, prev>>

\* Lines 196-200: engine.save_pil_image encodes the thumbnail, or cannot.
Encode ==
    /\ pc = "Encode"
    /\ \E encodable \in BOOLEAN :
        /\ Enter("Encode")
        /\ log' = log \o Invoked("encoder", 1)
        /\ IF encodable
           THEN /\ pc' = "Done"
                /\ result' = Returned(
                       [kind |-> "ThumbnailFile",
                        image |-> call.thumbnail_image,
                        filename |-> call.filename,
                        quality |-> Get(call.thumbnail_options.items, "quality"),
                        subsampling |-> Get(call.thumbnail_options.items, "subsampling")])
           ELSE Fail("EncodingError", <<>>)
        /\ UNCHANGED <<thumbnailer, call, prev>>

\* The caller takes what the call returned or raised.
Return ==
    /\ pc \in {"Done", "Failed"}
    /\ pc' = "idle"
    /\ call' = NoCall
    /\ trace' = <<>>
    /\ log' = <<>>
    /\ result' = Returned(NoneValue)
    /\ UNCHANGED <<thumbnailer, prev>>

Next ==
    \/ get_thumbnailer
    \/ Thumbnailer__init__
    \/ __getitem__
    \/ get_thumbnail
    \/ generate_thumbnail
    \/ SizeCheck
    \/ GenerateSource
    \/ Process
    \/ Name
    \/ Encode
    \/ Return

Spec == Init /\ [][Next]_vars

-----------------------------------------------------------------------------
(* The claims about the pipeline.                                          *)

InPipeline == call.op \in PipelineOps

\* The call got past the normalisation of its options.
Normalised == InPipeline /\ result.exc \notin {"KeyError", "TypeError"}

\* The numbers among the components of a size.
Numbers(size) == {size[i][1] : i \in {j \in DOMAIN size : size[j] # NoneDim}}

\* The size check as the specification words it: the maximum of the numeric
\* components and 0 is 0, or a numeric component is negative.
RefusedSize(size) ==
    \/ \A n \in Numbers(size) \cup {0} : n <= 0
    \/ \E n \in Numbers(size) : n < 0

\* C1: once the size check has run, the call has failed with the invalid
\* size error exactly when the maximum of the numeric size components and 0
\* is 0 or a numeric component is negative; a refused size ends the call in
\* the size check, any other size goes on to source generation; (0,0),
\* (None,None) and (-10,50) are refused, (0,50) and (50,None) are not.
C1_SizeValidation ==
    /\ (InPipeline /\ Len(trace) >= 1) =>
           LET size == Get(call.thumbnail_options.items, "size")
           IN  /\ (result.exc = InvalidSizeError) <=> RefusedSize(size)
               /\ RefusedSize(size) => pc = "Failed" /\ trace = <<"SizeCheck">>
               /\ (~RefusedSize(size) /\ Len(trace) = 1) => pc = "GenerateSource"
    /\ size_is_invalid(<<Num(0), Num(0)>>)
    /\ size_is_invalid(<<NoneDim, NoneDim>>)
    /\ size_is_invalid(<<Num(-10), Num(50)>>)
    /\ ~size_is_invalid(<<Num(0), Num(50)>>)
    /\ ~size_is_invalid(<<Num(50), NoneDim>>)

\* The size (-10,50) has been refused by the size check.
C1_Witness ==
    /\ InPipeline /\ pc = "Failed"
    /\ trace = <<"SizeCheck">>
    /\ Get(call.thumbnail_options.items, "size") = <<Num(-10), Num(50)>>
    /\ result.exc = InvalidSizeError

\* The place of the first generator with outcome `what`, 0 when there is none.
First(outcomes, what) ==
    IF \E i \in DOMAIN outcomes : outcomes[i] = what
    THEN CHOOSE i \in DOMAIN outcomes :
             /\ outcomes[i] = what
             /\ \A j \in DOMAIN outcomes : outcomes[j] = what => i <= j
    ELSE 0

\* The generators invoked by the call, in the order of their invocation.
GeneratorsTried ==
    LET entries == SelectSeq(log, LAMBDA e : e[1] = "generator")
    IN  [i \in DOMAIN entries |-> entries[i][2]]

UpTo(n) == [i \in 1..n |-> i]

\* The source generation stage has run on a source that is there.
SourceGenerated == InPipeline /\ Len(trace) >= 2 /\ thumbnailer.file # None

\* C5: the generators are tried in their order; the first that returns an
\* image ends the stage, the rest untried; in silent mode a failing
\* generator is skipped, and when none returns an image the call fails with
\* InvalidImageFormatError naming the source; in non-silent mode the first
\* generator failure propagates and no later generator is tried.
C5_GeneratorFallback ==
    SourceGenerated =>
        LET image == First(call.outcomes, "image")
            raise == First(call.outcomes, "raise")
            propagates == /\ ~call.silent_template_exception
                          /\ raise # 0
                          /\ (image = 0 \/ raise < image)
        IN  /\ propagates =>
                /\ GeneratorsTried = UpTo(raise)
                /\ pc = "Failed" /\ result.exc = "GeneratorError"
            /\ (~propagates /\ image # 0) =>
                /\ GeneratorsTried = UpTo(image)
                /\ call.image.generator = image
                /\ result.exc # InvalidImageFormatError
                /\ result.exc # "GeneratorError"
            /\ (~propagates /\ image = 0) =>
                /\ GeneratorsTried = UpTo(NumGenerators)
                /\ pc = "Failed" /\ result.exc = InvalidImageFormatError
                /\ result.arg = thumbnailer.name

\* In silent mode the first two generators fail and the third makes the
\* image the thumbnail is processed from.
C5_Witness ==
    /\ SourceGenerated
    /\ call.silent_template_exception
    /\ call.outcomes = <<"raise", "raise", "image">>
    /\ GeneratorsTried = <<1, 2, 3>>
    /\ call.image.generator = 3
    /\ pc = "Process"

\* The alias resolves to an option set that is not empty.
AliasFound(alias) ==
    LET options == aliases_get(alias, None)
    IN  options.kind # "None" /\ options.items # <<>>

\* C6: thumbnailer[alias] raises KeyError(alias), and runs no stage, when the
\* alias resolves to no option set or an empty one; otherwise it runs the
\* pipeline in silent mode on the option set tagged ALIAS=alias, so every
\* thumbnail it returns was made from options tagged with the alias.
C6_AliasLookup ==
    call.op = "__getitem__" =>
        /\ ~AliasFound(call.alias) =>
               /\ pc = "Failed"
               /\ result.exc = "KeyError" /\ result.arg = <<call.alias>>
               /\ trace = <<>> /\ log = <<>>
        /\ AliasFound(call.alias) =>
               /\ result.exc # "KeyError"
               /\ call.silent_template_exception
               /\ Has(call.thumbnail_options.items, "ALIAS")
               /\ Get(call.thumbnail_options.items, "ALIAS") = call.alias
               /\ AsMapping(aliases_get(call.alias, None).items)
                      \subseteq AsMapping(call.thumbnail_options.items)

\* thumbnailer['small'] has returned a thumbnail.
C6_Witness ==
    /\ call.op = "__getitem__" /\ call.alias = "small"
    /\ pc = "Done"
    /\ result.ret.kind = "ThumbnailFile"

\* C7 as stated: without a source the call fails with MissingSourceError
\* and the size check is never entered.
C7_Original ==
    (Normalised /\ thumbnailer.file = None) =>
        /\ pc # "Done"
        /\ pc = "Failed" => result.exc = "MissingSourceError" /\ trace = <<>>

\* C7, amended: without a source the size check still runs first, so an
\* invalid size fails with the invalid size error; with a valid size the call
\* fails with MissingSourceError when the engine is asked for the source
\* image, before any source generator, processor, namer or encoder is
\* invoked.
C7_MissingSource ==
    (Normalised /\ thumbnailer.file = None) =>
        /\ log = <<>>
        /\ pc \in {"SizeCheck", "GenerateSource", "Failed"}
        /\ pc = "Failed" =>
               LET size == Get(call.thumbnail_options.items, "size")
               IN  IF RefusedSize(size)
                   THEN result.exc = InvalidSizeError /\ trace = <<"SizeCheck">>
                   ELSE /\ result.exc = "MissingSourceError"
                        /\ trace = <<"SizeCheck", "GenerateSource">>

\* A Thumbnailer built from a name string has failed with
\* MissingSourceError on a valid size.
C7_Witness ==
    /\ Normalised /\ thumbnailer.file = None /\ ~thumbnailer.remote_source
    /\ ~RefusedSize(Get(call.thumbnail_options.items, "size"))
    /\ pc = "Failed"
    /\ result.exc = "MissingSourceError"

\* Generation is switched off for the call.
GenerationDisabled ==
    \/ call.generate = "False"
    \/ call.generate = "None" /\ ~thumbnailer.generate

\* C8: get_thumbnail with generation switched off (generate=False, or
\* generate=None on a Thumbnailer built with generate=False) generates
\* nothing and returns None; with generate=True it generates.
C8_GenerateSwitch ==
    call.op = "get_thumbnail" =>
        /\ GenerationDisabled =>
               /\ result.ret.kind # "ThumbnailFile"
               /\ pc = "Done" => result.ret.kind = "None"
        /\ (call.generate = "True" /\ pc = "Done") =>
               result.ret.kind = "ThumbnailFile"

IsPrefix(s, t) == Len(s) <= Len(t) /\ s = SubSeq(t, 1, Len(s))

\* The collaborators a call that entered `n` stages has invoked, given the
\* generators it tried.
InvokedAfter(n, tried) ==
    Invoked("generator", tried)
    \o (IF n >= 3 THEN Invoked("processor", NumProcessors) ELSE <<>>)
    \o (IF n >= 4 THEN Invoked("namer", 1) ELSE <<>>)
    \o (IF n >= 5 THEN Invoked("encoder", 1) ELSE <<>>)

\* What a stage other than Name does next (Name is enabled by its place
\* alone).
StageStep == SizeCheck \/ GenerateSource \/ Process \/ Encode

\* C9: a run enters SizeCheck, GenerateSource, Process, Name, Encode in that
\* order, each at most once; the name is derived with the transparency of
\* the processed image; a failure ends the run (after an invalid size no
\* generator is called, without an image no processor, namer or encoder);
\* a run that has not ended stands before its next stage, which it can take
\* (Name has no condition but its place), and one that has ended holds the
\* encoded thumbnail or exactly one failure.
C9_StageOrder ==
    InPipeline =>
        /\ IsPrefix(trace, Stages)
        /\ log = InvokedAfter(Len(trace), Len(GeneratorsTried))
        /\ pc \in {"SizeCheck", "GenerateSource", "Process", "Name", "Encode",
                   "Done", "Failed"}
        /\ pc \notin {"Done", "Failed"} =>
               /\ Len(trace) < Len(Stages) /\ pc = Stages[Len(trace) + 1]
               /\ result.exc = NoException
               /\ pc # "Name" => ENABLED StageStep
        /\ Len(trace) = 0 => GeneratorsTried = <<>>
        /\ Len(trace) >= 3 => call.image # NoImage
        /\ Len(trace) >= 4 =>
               call.filename =
                   get_thumbnail_name(thumbnailer, call.thumbnail_options,
                                      call.thumbnail_image.transparent).ret
        /\ pc = "Done" =>
               /\ trace = Stages
               /\ result.exc = NoException
               /\ result.ret.kind = "ThumbnailFile"
               /\ result.ret.image = call.thumbnail_image
               /\ result.ret.filename = call.filename
        /\ pc = "Failed" =>
               /\ result.exc # NoException
               /\ result.ret.kind = "None"
               /\ result.exc = InvalidSizeError =>
                      trace = <<"SizeCheck">> /\ log = <<>>
               /\ result.exc \in {InvalidImageFormatError, "MissingSourceError",
                                  "GeneratorError"} =>
                      trace = <<"SizeCheck", "GenerateSource">>
               /\ result.exc = "EncodingError" => trace = Stages
               /\ result.exc \in {"KeyError", "TypeError"} => trace = <<>>

\* A run has gone through all five stages and returned a transparent
\* thumbnail named with the transparency extension.
C9_Witness ==
    /\ InPipeline /\ pc = "Done"
    /\ trace = Stages
    /\ call.thumbnail_image.transparent
    /\ result.ret.filename[Len(result.ret.filename)] = "png"

-----------------------------------------------------------------------------
(* The option specification: get_options called on raw options, on None    *)
(* and on what it returned.                                                *)

RawOptionSets == {Dict(d) : d \in AllOrderings(OptionPool)} \cup {NoneOptions}

KeywordOptions == {<<>>, << <<"crop", TRUE>> >>, << <<"quality", Num(50)>> >>}

InitOptions ==
    /\ thumbnailer \in
           {Thumbnailer(None, <<"test", ".", "jpg">>, FALSE, TRUE,
                        [DefaultSettings EXCEPT !.thumbnail_quality = q]) :
               q \in {Num(85), Num(70)}}
    /\ pc = "idle"
    /\ call = NoCall
    /\ trace = <<>>
    /\ log = <<>>
    /\ result = [exc |-> NoException, val |-> NoneOptions]
    /\ prev = NoPrev

\* thumbnailer.get_options(thumbnail_options, **kwargs)
CallGetOptions ==
    \E thumbnail_options \in RawOptionSets, kwargs \in KeywordOptions :
        /\ call' = [op |-> "get_options",
                    thumbnail_options |-> thumbnail_options,
                    kwargs |-> kwargs]
        /\ result' = get_options(thumbnailer, thumbnail_options, kwargs)
        /\ UNCHANGED <<thumbnailer, pc, trace, log, prev>>

\* thumbnailer.get_options(opts), opts being what get_options returned.
CallGetOptionsAgain ==
    /\ call.op = "get_options"
    /\ result.exc = NoException
    /\ call' = [op |-> "get_options_again",
                thumbnail_options |-> result.val,
                kwargs |-> <<>>]
    /\ result' = get_options(thumbnailer, result.val, <<>>)
    /\ UNCHANGED <<thumbnailer, pc, trace, log, prev>>

NextOptions == CallGetOptions \/ CallGetOptionsAgain

SpecOptions == InitOptions /\ [][NextOptions]_vars

\* The options the caller gave: the raw mapping, the keyword options on top.
CallerOptions == Update(call.thumbnail_options.items, call.kwargs)

\* C10: get_options succeeds on every input, None included; a quality the
\* caller gave is kept, the thumbnailer's thumbnail_quality is filled in only
\* when the caller gave none; every other option of the caller keeps its
\* value; normalised options are returned as they are.
C10_GetOptions ==
    call.op \in {"get_options", "get_options_again"} =>
        /\ result.exc = NoException
        /\ result.val.kind = "ThumbnailOptions"
        /\ AsMapping(CallerOptions) \subseteq AsMapping(result.val.items)
        /\ ~Has(CallerOptions, "quality") =>
               Get(result.val.items, "quality") = thumbnailer.thumbnail_quality
        /\ call.op = "get_options_again" => result.val = call.thumbnail_options

====
